---------------------------- MODULE Spec2Model ----------------------------
(***************************************************************************)
(* Model of common/src/proof/mod.rs: the StarkProof accessors              *)
(* (lde_domain_size, trace_length, security_level) and the helpers         *)
(* get_num_modulus_bits and get_conjectured_security.                      *)
(*                                                                         *)
(* Rust's usize/u64 and u32 values do not fit the model checker's own      *)
(* integers, so every machine integer is an exact natural number written   *)
(* as a little-endian sequence of 15-bit limbs without high zero limbs     *)
(* (the empty sequence is 0).  Width is applied where the code applies it: *)
(* an operation whose exact result leaves the type's range either panics   *)
(* (overflow checks on, the debug profile) or wraps modulo 2^w (overflow   *)
(* checks off, the release profile).                                       *)
(***************************************************************************)
EXTENDS Integers, Sequences

VARIABLES
    context,          \* the proof's Context: lde_domain_depth, field_modulus_bytes, options
    overflow_checks,  \* the build: TRUE panics on integer overflow, FALSE wraps
    called,           \* the function called last ("none": the proof was only constructed)
    conjectured,      \* the argument of the last security_level call
    ret,              \* the outcome of the last call
    locals            \* the locals of get_conjectured_security in the last call

vars == <<context, overflow_checks, called, conjectured, ret, locals>>

\* ------------------------------------------------------------------------
\* Exact natural numbers (limb sequences)
\* ------------------------------------------------------------------------

LimbBits == 16 - 1
Limb == 2 ^ LimbBits

RECURSIVE Norm(_)
Norm(s) ==
    IF s = <<>> THEN <<>>
    ELSE IF s[Len(s)] = 0 THEN Norm(SubSeq(s, 1, Len(s) - 1))
    ELSE s

RECURSIVE N(_)
N(n) == IF n = 0 THEN <<>> ELSE <<n % Limb>> \o N(n \div Limb)

RECURSIVE ToInt(_)
ToInt(a) == IF a = <<>> THEN 0 ELSE a[1] + Limb * ToInt(Tail(a))

LimbAt(a, i) == IF i <= Len(a) THEN a[i] ELSE 0

RECURSIVE CmpFrom(_, _, _)
CmpFrom(a, b, i) ==
    IF i = 0 THEN 0
    ELSE IF a[i] < b[i] THEN -1
    ELSE IF a[i] > b[i] THEN 1
    ELSE CmpFrom(a, b, i - 1)

Cmp(a, b) ==
    IF Len(a) < Len(b) THEN -1
    ELSE IF Len(a) > Len(b) THEN 1
    ELSE CmpFrom(a, b, Len(a))

Lt(a, b) == Cmp(a, b) < 0
Le(a, b) == Cmp(a, b) <= 0

RECURSIVE AddFrom(_, _, _, _)
AddFrom(a, b, i, c) ==
    IF i > Len(a) /\ i > Len(b) THEN (IF c = 0 THEN <<>> ELSE <<c>>)
    ELSE LET s == LimbAt(a, i) + LimbAt(b, i) + c
         IN  <<s % Limb>> \o AddFrom(a, b, i + 1, s \div Limb)

Add(a, b) == AddFrom(a, b, 1, 0)

RECURSIVE SubFrom(_, _, _, _)
SubFrom(a, b, i, br) ==
    IF i > Len(a) THEN <<>>
    ELSE LET d == a[i] - LimbAt(b, i) - br
         IN  IF d < 0 THEN <<d + Limb>> \o SubFrom(a, b, i + 1, 1)
             ELSE <<d>> \o SubFrom(a, b, i + 1, 0)

\* a - b for a >= b
Sub(a, b) == Norm(SubFrom(a, b, 1, 0))

RECURSIVE MulLimbFrom(_, _, _, _)
MulLimbFrom(a, m, i, c) ==
    IF i > Len(a) THEN (IF c = 0 THEN <<>> ELSE <<c>>)
    ELSE LET p == a[i] * m + c
         IN  <<p % Limb>> \o MulLimbFrom(a, m, i + 1, p \div Limb)

MulLimb(a, m) == Norm(MulLimbFrom(a, m, 1, 0))

ShiftLimbs(a, k) == IF a = <<>> THEN <<>> ELSE [j \in 1..k |-> 0] \o a

RECURSIVE MulFrom(_, _, _)
MulFrom(a, b, j) ==
    IF j > Len(b) THEN <<>>
    ELSE Add(ShiftLimbs(MulLimb(a, b[j]), j - 1), MulFrom(a, b, j + 1))

Mul(a, b) ==
    IF Len(b) = 1 THEN MulLimb(a, b[1])
    ELSE IF Len(a) = 1 THEN MulLimb(b, a[1])
    ELSE MulFrom(a, b, 1)

Pow2(k) == ShiftLimbs(<<2 ^ (k % LimbBits)>>, k \div LimbBits)

RECURSIVE SmallBitLen(_)
SmallBitLen(n) == IF n = 0 THEN 0 ELSE 1 + SmallBitLen(n \div 2)

BitLen(a) == IF a = <<>> THEN 0 ELSE LimbBits * (Len(a) - 1) + SmallBitLen(a[Len(a)])

\* the largest digit d in lo..hi with b * d <= r, given b * lo <= r
RECURSIVE DigitSearch(_, _, _, _)
DigitSearch(r, b, lo, hi) ==
    IF lo = hi THEN lo
    ELSE LET mid == (lo + hi + 1) \div 2
         IN  IF Le(MulLimb(b, mid), r) THEN DigitSearch(r, b, mid, hi)
             ELSE DigitSearch(r, b, lo, mid - 1)

\* the quotient digit of cur by b, for cur < b * Limb: by the machine's own
\* division when both fit two limbs, by search otherwise
Digit(cur, b) ==
    IF Len(cur) <= 2 THEN ToInt(cur) \div ToInt(b)
    ELSE DigitSearch(cur, b, 0, Limb - 1)

\* long division of the limbs a[i..Len(a)], most significant limb first:
\* the quotient digits of those limbs and the remainder left under them
RECURSIVE DivFrom(_, _, _)
DivFrom(a, b, i) ==
    IF i > Len(a) THEN [q |-> <<>>, r |-> <<>>]
    ELSE LET above == DivFrom(a, b, i + 1)
             cur == Norm(<<a[i]>> \o above.r)
             d == Digit(cur, b)
         IN  IF Lt(cur, b) THEN [q |-> <<0>> \o above.q, r |-> cur]
             ELSE [q |-> <<d>> \o above.q, r |-> Sub(cur, MulLimb(b, d))]

\* quotient and remainder of a by b, for b > 0
DivMod(a, b) ==
    LET x == DivFrom(a, b, 1)
    IN  [q |-> Norm(x.q), r |-> x.r]

Div(a, b) == DivMod(a, b).q
Mod(a, b) == DivMod(a, b).r

Min(a, b) == IF Le(a, b) THEN a ELSE b

\* a < 2^w
Fits(a, w) == BitLen(a) <= w

\* a mod 2^w: the low w bits of a
Wrap(a, w) ==
    Norm([i \in 1..(w \div LimbBits + 1) |->
            IF i <= w \div LimbBits THEN LimbAt(a, i)
            ELSE LimbAt(a, i) % (2 ^ (w % LimbBits))])

\* ------------------------------------------------------------------------
\* Rust machine integers
\* ------------------------------------------------------------------------

U8_BITS == 8
U32_BITS == 32
U64_BITS == 64
\* usize on the 64-bit targets the crate is built for
USIZE_BITS == 64

\* The outcome of a call: a returned value, or a panic that unwinds out of it.
Ok(v) == [kind |-> "Ok", value |-> v, reason |-> ""]
Panic(why) == [kind |-> "Panic", value |-> <<>>, reason |-> why]

\* a + b on a w-bit unsigned type; oc: the build's overflow checks
UAdd(a, b, w, oc) ==
    LET s == Add(a, b)
    IN  IF Fits(s, w) THEN Ok(s)
        ELSE IF oc THEN Panic("attempt to add with overflow")
        ELSE Ok(Wrap(s, w))

\* a - b on a w-bit unsigned type
USub(a, b, w, oc) ==
    IF Le(b, a) THEN Ok(Sub(a, b))
    ELSE IF oc THEN Panic("attempt to subtract with overflow")
    ELSE Ok(Sub(Add(a, Pow2(w)), b))

\* a * b on a w-bit unsigned type
UMul(a, b, w, oc) ==
    LET p == Mul(a, b)
    IN  IF Fits(p, w) THEN Ok(p)
        ELSE IF oc THEN Panic("attempt to multiply with overflow")
        ELSE Ok(Wrap(p, w))

\* a / b on an unsigned type: division by zero panics in every build
UDiv(a, b) ==
    IF b = <<>> THEN Panic("attempt to divide by zero")
    ELSE Ok(Div(a, b))

\* the loop of the standard library's pow: square and multiply, each product
\* taken on the w-bit type
RECURSIVE PowLoop(_, _, _, _, _)
PowLoop(base, acc, exp, w, oc) ==
    IF exp > 1
    THEN LET a1 == IF exp % 2 = 1 THEN UMul(acc, base, w, oc) ELSE Ok(acc)
             b1 == UMul(base, base, w, oc)
         IN  IF a1.kind = "Panic" THEN a1
             ELSE IF b1.kind = "Panic" THEN b1
             ELSE PowLoop(b1.value, a1.value, exp \div 2, w, oc)
    ELSE UMul(acc, base, w, oc)

\* base.pow(exp) on a w-bit unsigned type
UPow(base, exp, w, oc) ==
    IF exp = 0 THEN Ok(N(1)) ELSE PowLoop(base, N(1), exp, w, oc)

\* x as u32, for an unsigned x of a wider type
AsU32(x) == Wrap(x, U32_BITS)

\* bit i (0 = least significant) of a
BitAt(a, i) == (LimbAt(a, i \div LimbBits + 1) \div (2 ^ (i % LimbBits))) % 2

RECURSIVE CountLeadingZeros(_, _)
CountLeadingZeros(x, bit) ==
    IF bit < 0 THEN 0
    ELSE IF (x \div (2 ^ bit)) % 2 = 1 THEN 0
    ELSE 1 + CountLeadingZeros(x, bit - 1)

\* u8::leading_zeros
leading_zeros(byte) == CountLeadingZeros(byte, U8_BITS - 1)

\* u64::trailing_zeros: the position of the lowest set bit, the width of the
\* type for 0
trailing_zeros(a, w) ==
    IF a = <<>> THEN w
    ELSE CHOOSE i \in 0..(w - 1) :
            BitAt(a, i) = 1 /\ \A j \in 0..(i - 1) : BitAt(a, j) = 0

\* ------------------------------------------------------------------------
\* Collaborators of the proof module
\* ------------------------------------------------------------------------

\* math::utils::log2 (the math crate), as section 4.2 of the specification
\* gives it: floor(log2(n)); there is no logarithm of 0
log2(n) ==
    IF n = <<>> THEN Panic("log2 of zero")
    ELSE Ok(N(BitLen(n) - 1))

\* hash_fn().collision_resistance() (ProofOptions, crate root): a fixed bit
\* count per hash function
collision_resistance(hash_fn) ==
    CASE hash_fn = "Blake3_256" -> 128
      [] hash_fn = "Sha3_256" -> 128

\* ------------------------------------------------------------------------
\* common/src/proof/mod.rs
\* ------------------------------------------------------------------------

GRINDING_CONTRIBUTION_FLOOR == 80

\* "if query_security >= GRINDING_CONTRIBUTION_FLOOR", strict by mistake
GrindingAppliesStrict(query_security) == Lt(N(80), query_security)

\* line 129: if query_security >= GRINDING_CONTRIBUTION_FLOOR
GrindingApplies(query_security) == Le(N(GRINDING_CONTRIBUTION_FLOOR), query_security)

\* the loop without "num_bits -= 8" for a skipped zero byte
RECURSIVE ScanBytesKeepingZeroBytes(_, _, _)
ScanBytesKeepingZeroBytes(bytes, i, num_bits) ==
    IF i = 0 THEN 0
    ELSE IF bytes[i] # 0 THEN num_bits - leading_zeros(bytes[i])
    ELSE ScanBytesKeepingZeroBytes(bytes, i - 1, num_bits)

\* lines 98-106: the loop over modulus_bytes.iter().rev(); i is the position
\* of the byte the iterator yields next (0: exhausted)
RECURSIVE ScanBytes(_, _, _)
ScanBytes(bytes, i, num_bits) ==
    IF i = 0 THEN 0
    ELSE IF bytes[i] # 0 THEN num_bits - leading_zeros(bytes[i])
    ELSE ScanBytes(bytes, i - 1, num_bits - U8_BITS)

\* Neither subtraction of the loop can leave u32: num_bits is 8 * i when
\* byte i is examined, and leading_zeros of a non-zero byte is at most 7.
get_num_modulus_bits(modulus_bytes) ==
    ScanBytes(modulus_bytes, Len(modulus_bytes), Len(modulus_bytes) * U8_BITS)

\* StarkProof::lde_domain_size
lde_domain_size(self, oc) ==
    UPow(N(2), self.lde_domain_depth, USIZE_BITS, oc)

\* StarkProof::trace_length
trace_length(self, oc) ==
    LET size == lde_domain_size(self, oc)
    IN  IF size.kind = "Panic" THEN size
        ELSE UDiv(size.value, N(self.options.blowup_factor))

\* The locals of get_conjectured_security; line is the source line the call
\* ended at (0: not called).
NoLocals ==
    [line |-> 0, base_field_size |-> <<>>, field_size |-> <<>>,
     field_security |-> <<>>, hash_fn_security |-> <<>>, one_over_rho |-> <<>>,
     security_per_query |-> <<>>, product |-> <<>>, query_security |-> <<>>]

get_conjectured_security(options, base_field_size, lde_size, trace_len, oc) ==
    LET l0 == [NoLocals EXCEPT !.base_field_size = base_field_size]
        m == UMul(base_field_size, N(options.field_extension_degree), U32_BITS, oc)
    IN  IF m.kind = "Panic" THEN [ret |-> m, locals |-> [l0 EXCEPT !.line = 117]] ELSE
    LET l1 == [l0 EXCEPT !.field_size = m.value]
        fs == USub(m.value, N(trailing_zeros(lde_size, U64_BITS)), U32_BITS, oc)
    IN  IF fs.kind = "Panic" THEN [ret |-> fs, locals |-> [l1 EXCEPT !.line = 118]] ELSE
    LET l2 == [l1 EXCEPT !.field_security = fs.value,
                         !.hash_fn_security = N(collision_resistance(options.hash_fn))]
        rho == UDiv(lde_size, trace_len)
    IN  IF rho.kind = "Panic" THEN [ret |-> rho, locals |-> [l2 EXCEPT !.line = 124]] ELSE
    LET l3 == [l2 EXCEPT !.one_over_rho = rho.value]
        spq == log2(rho.value)
    IN  IF spq.kind = "Panic" THEN [ret |-> spq, locals |-> [l3 EXCEPT !.line = 125]] ELSE
    LET l4 == [l3 EXCEPT !.security_per_query = spq.value]
        qs == UMul(spq.value, AsU32(N(options.num_queries)), U32_BITS, oc)
    IN  IF qs.kind = "Panic" THEN [ret |-> qs, locals |-> [l4 EXCEPT !.line = 126]] ELSE
    LET l5 == [l4 EXCEPT !.product = qs.value, !.query_security = qs.value]
        g == IF GrindingApplies(qs.value)
             THEN UAdd(qs.value, N(options.grinding_factor), U32_BITS, oc)
             ELSE qs
    IN  IF g.kind = "Panic" THEN [ret |-> g, locals |-> [l5 EXCEPT !.line = 130]] ELSE
    LET l6 == [l5 EXCEPT !.query_security = g.value, !.line = 133]
        r == USub(Min(Min(l6.field_security, l6.hash_fn_security), g.value),
                  N(1), U32_BITS, oc)
    IN  [ret |-> r, locals |-> l6]

\* StarkProof::security_level
security_level(self, conj, oc) ==
    LET base_field_size_bits == N(get_num_modulus_bits(self.field_modulus_bytes))
    IN  IF conj
        THEN LET size == lde_domain_size(self, oc)
             IN  IF size.kind = "Panic" THEN [ret |-> size, locals |-> NoLocals] ELSE
             LET len == trace_length(self, oc)
             IN  IF len.kind = "Panic" THEN [ret |-> len, locals |-> NoLocals]
                 ELSE get_conjectured_security(self.options, base_field_size_bits,
                                               size.value, len.value, oc)
        ELSE [ret |-> Panic("not implemented: proven security estimation has not been implement yet"),
              locals |-> NoLocals]

\* ------------------------------------------------------------------------
\* Proofs and calls
\*
\* A behaviour is a proof as it was constructed or deserialized, and calls of
\* its functions by a single caller: a call runs to its outcome (a value or a
\* panic) before the next one starts.
\* ------------------------------------------------------------------------

MaxNumQueries == 80
MaxModulusLen == 4

\* the modulus of the 64-bit field, 2^64 - 2^32 + 1, and of the 128-bit
\* field, 2^128 - 45 * 2^40 + 1, little-endian
F64_MODULUS == <<1, 0, 0, 0, 255, 255, 255, 255>>
F128_MODULUS == <<1, 0, 0, 0, 0, 211, 255, 255, 255, 255, 255, 255, 255, 255, 255, 255>>

Repeat(byte, n) == [i \in 1..n |-> byte]

ProofOptions(blowup, degree, hash_fn, queries, grinding) ==
    [blowup_factor |-> blowup, field_extension_degree |-> degree,
     hash_fn |-> hash_fn, num_queries |-> queries, grinding_factor |-> grinding]

Context(depth, bytes, options) ==
    [lde_domain_depth |-> depth, field_modulus_bytes |-> bytes, options |-> options]

Constructed ==
    /\ called = "none"
    /\ conjectured = FALSE
    /\ ret = Ok(<<>>)
    /\ locals = NoLocals

\* proofs for the security estimate
Init ==
    /\ \E depth \in {0, 3, 10},
          bytes \in {<<>>, <<255>>, F64_MODULUS},
          blowup \in {1, 2, 3, 4},
          degree \in {1, 2},
          queries \in 0..MaxNumQueries,
          grinding \in {0, 20} :
            context = Context(depth, bytes,
                              ProofOptions(blowup, degree, "Blake3_256", queries, grinding))
    /\ overflow_checks \in {FALSE, TRUE}
    /\ Constructed

\* proofs of every domain depth a u8 holds
InitDomain ==
    /\ \E depth \in 0..(2 ^ U8_BITS - 1),
          blowup \in {1, 2, 3, 4, 8, 16} :
            context = Context(depth, F128_MODULUS,
                              ProofOptions(blowup, 1, "Sha3_256", 32, 0))
    /\ overflow_checks \in {FALSE, TRUE}
    /\ Constructed

RECURSIVE SeqsUpTo(_, _)
SeqsUpTo(S, n) ==
    IF n = 0 THEN {<<>>}
    ELSE LET shorter == SeqsUpTo(S, n - 1)
         IN  shorter \cup {Append(t, x) : t \in shorter, x \in S}

\* field moduli of every shape
InitBits ==
    /\ \E bytes \in SeqsUpTo({0, 1, 128, 255}, MaxModulusLen)
                      \cup {<<b>> : b \in 0..255}
                      \cup {<<b, 0>> : b \in 0..255}
                      \cup {<<0, b>> : b \in 0..255}
                      \cup {Repeat(255, 8), Repeat(0, 8), F64_MODULUS, F128_MODULUS} :
            context = Context(10, bytes, ProofOptions(8, 1, "Blake3_256", 32, 0))
    /\ overflow_checks \in {FALSE, TRUE}
    /\ Constructed

CallLdeDomainSize ==
    /\ called = "none"
    /\ called' = "lde_domain_size"
    /\ ret' = lde_domain_size(context, overflow_checks)
    /\ conjectured' = FALSE
    /\ locals' = NoLocals
    /\ UNCHANGED <<context, overflow_checks>>

CallTraceLength ==
    /\ called = "none"
    /\ called' = "trace_length"
    /\ ret' = trace_length(context, overflow_checks)
    /\ conjectured' = FALSE
    /\ locals' = NoLocals
    /\ UNCHANGED <<context, overflow_checks>>

CallSecurityLevel(c) ==
    LET out == security_level(context, c, overflow_checks)
    IN  /\ called = "none"
        /\ called' = "security_level"
        /\ conjectured' = c
        /\ ret' = out.ret
        /\ locals' = out.locals
        /\ UNCHANGED <<context, overflow_checks>>

CallGetNumModulusBits ==
    /\ called = "none"
    /\ called' = "get_num_modulus_bits"
    /\ ret' = Ok(N(get_num_modulus_bits(context.field_modulus_bytes)))
    /\ conjectured' = FALSE
    /\ locals' = NoLocals
    /\ UNCHANGED <<context, overflow_checks>>

\* The caller takes the outcome; the proof is as it was constructed (every
\* function takes &self and changes nothing), ready for the next call.
Return ==
    /\ called # "none"
    /\ called' = "none"
    /\ conjectured' = FALSE
    /\ ret' = Ok(<<>>)
    /\ locals' = NoLocals
    /\ UNCHANGED <<context, overflow_checks>>

Next ==
    \/ CallLdeDomainSize
    \/ CallTraceLength
    \/ \E c \in BOOLEAN : CallSecurityLevel(c)
    \/ Return

NextDomain ==
    \/ CallLdeDomainSize
    \/ CallTraceLength
    \/ Return

NextBits ==
    \/ CallGetNumModulusBits
    \/ Return

Spec == Init /\ [][Next]_vars
SpecDomain == InitDomain /\ [][NextDomain]_vars
SpecBits == InitBits /\ [][NextBits]_vars

\* ------------------------------------------------------------------------
\* What the properties speak of
\* ------------------------------------------------------------------------

Depth == context.lde_domain_depth
Options == context.options
ConjecturedCall == called = "security_level" /\ conjectured

\* bit j (0 = least significant) of the integer the little-endian bytes encode
ByteBit(bytes, j) == (bytes[j \div 8 + 1] \div (2 ^ (j % 8))) % 2

SetBits(bytes) == {j \in 0..(8 * Len(bytes) - 1) : ByteBit(bytes, j) = 1}

\* index of the highest set bit plus one; 0 when no bit is set
ExactBitLength(bytes) ==
    IF SetBits(bytes) = {} THEN 0
    ELSE 1 + CHOOSE j \in SetBits(bytes) : \A k \in SetBits(bytes) : k <= j

\* the integer the little-endian bytes encode
RECURSIVE EncodedInteger(_)
EncodedInteger(bytes) ==
    IF bytes = <<>> THEN <<>>
    ELSE LET high == EncodedInteger(Tail(bytes))
         IN  IF high = <<>> THEN N(bytes[1])
             ELSE Add(N(bytes[1]), MulLimb(high, 256))

ModulusBits == ExactBitLength(context.field_modulus_bytes)

MinInt(a, b) == IF a <= b THEN a ELSE b

\* the three terms of the estimate in exact integers, for a domain of
\* 2^Depth points (Depth < 64) and a trace of len > 0 points
FieldSecurity == ModulusBits * Options.field_extension_degree - Depth
HashFnSecurity == collision_resistance(Options.hash_fn)
QuerySecurity(len) ==
    LET per_query == BitLen(Div(Pow2(Depth), len)) - 1
        product == per_query * Options.num_queries
    IN  IF product >= 80 THEN product + Options.grinding_factor ELSE product

\* ------------------------------------------------------------------------
\* Properties
\* ------------------------------------------------------------------------

\* C1: for every valid input (modulus of at least one bit, a power-of-two
\* domain larger than the trace) security_level(true) returns exactly
\* min(field_security, hash_fn_security, query_security) - 1, with no
\* overflow or underflow on the way.
C1_ExactOnValidInputs ==
    LET len == Div(Pow2(Depth), N(Options.blowup_factor))
    IN  (/\ ConjecturedCall
         /\ ModulusBits > 0
         /\ Depth < USIZE_BITS
         /\ Lt(len, Pow2(Depth)))
        => /\ ret.kind = "Ok"
           /\ len # <<>>
           /\ LET expected == MinInt(MinInt(FieldSecurity, HashFnSecurity),
                                     QuerySecurity(len)) - 1
              IN  expected >= 0 /\ ret.value = N(expected)

\* C2: security_level(false) returns the Unsupported outcome as a value, for
\* every proof, and neither aborts nor returns a number.
C2_ProvenIsUnsupported ==
    (called = "security_level" /\ ~conjectured) => ret.kind = "Unsupported"

\* C3: the grinding factor is added to the query term exactly when
\* security_per_query * num_queries >= 80: a product of 79 with grinding
\* factor 20 stays 79, a product of 80 becomes 100; the result is the minimum
\* of that term and the field and hash terms, less 1.
C3_GrindingFloor ==
    (ConjecturedCall /\ locals.line = 133)
    => LET product == Mul(locals.security_per_query, N(Options.num_queries))
           grinding == N(Options.grinding_factor)
           capped == Min(Min(locals.field_security, locals.hash_fn_security),
                         locals.query_security)
       IN  /\ Lt(product, N(80)) => locals.query_security = product
           /\ Le(N(80), product) => locals.query_security = Add(product, grinding)
           /\ (product = N(79) /\ grinding = N(20)) => locals.query_security = N(79)
           /\ (product = N(80) /\ grinding = N(20)) => locals.query_security = N(100)
           /\ (ret.kind = "Ok" /\ capped # <<>>) => ret.value = Sub(capped, N(1))

\* C3, reached: at a product of exactly 80 the grinding factor 20 was added
C3_GrindingAdded ==
    /\ ConjecturedCall
    /\ locals.line = 133
    /\ locals.product = N(80)
    /\ Options.grinding_factor = 20
    /\ locals.query_security = N(100)
    /\ ret.kind = "Ok"

\* C4: when the domain is no larger than the trace (blowup factor 1),
\* security_level(true) fails with an invalid-input error and returns no
\* number.
C4_NoBlowupIsInvalidInput ==
    LET size == lde_domain_size(context, overflow_checks)
        len == trace_length(context, overflow_checks)
    IN  (/\ ConjecturedCall
         /\ size.kind = "Ok"
         /\ len.kind = "Ok"
         /\ Le(size.value, len.value))
        => ret.kind = "InvalidInput"

\* C5: a modulus of bit length 0, or a field of fewer bits than
\* log2(lde_domain_size), makes security_level(true) end in a reported
\* InvalidInput or Overflow error, never in a wrapped number.
C5_SmallFieldIsReported ==
    (/\ ConjecturedCall
     /\ Depth < USIZE_BITS
     /\ \/ ModulusBits = 0
        \/ ModulusBits * Options.field_extension_degree < Depth)
    => ret.kind \in {"InvalidInput", "Overflow"}

\* C6: for every depth 0..255 lde_domain_size() returns exactly 2^depth
\* (depth 0..63) or fails with an invalid-input error (2^depth does not fit
\* 64 bits); it returns no wrapped number.
C6_DomainSizeExactOrInvalid ==
    called = "lde_domain_size"
    => IF Depth < USIZE_BITS THEN ret = Ok(Pow2(Depth))
       ELSE ret.kind = "InvalidInput"

\* C7: get_num_modulus_bits returns the exact bit length of the integer the
\* little-endian bytes encode: the index of its highest set bit plus one, 0
\* when every byte is zero; eight 0xFF bytes give 64 and [0x01, 0x00] gives 1.
C7_ModulusBitLength ==
    called = "get_num_modulus_bits"
    => LET bytes == context.field_modulus_bytes
           value == EncodedInteger(bytes)
       IN  /\ ret.kind = "Ok"
           /\ ret.value = N(ExactBitLength(bytes))
           /\ BitLen(value) = ToInt(ret.value)
           /\ (\A i \in 1..Len(bytes) : bytes[i] = 0) => ret.value = <<>>
           /\ bytes = Repeat(255, 8) => ret.value = N(64)
           /\ bytes = <<1, 0>> => ret.value = N(1)

\* C7, reached: the bit length of eight 0xFF bytes was returned
C7_SixtyFourBits ==
    /\ called = "get_num_modulus_bits"
    /\ context.field_modulus_bytes = Repeat(255, 8)
    /\ ret = Ok(N(64))

\* C8: trace_length() returns t with t * blowup_factor = lde_domain_size(),
\* or flags the proof as invalid input when the blowup factor does not divide
\* the domain size; it returns no truncated quotient.
C8_TraceLengthExactOrInvalid ==
    LET size == lde_domain_size(context, overflow_checks)
    IN  called = "trace_length"
        => \/ /\ ret.kind = "Ok"
              /\ size.kind = "Ok"
              /\ Mul(ret.value, N(Options.blowup_factor)) = size.value
           \/ /\ ret.kind = "InvalidInput"
              /\ size.kind = "Ok"
              /\ Mod(size.value, N(Options.blowup_factor)) # <<>>

\* C9: all else fixed, security_level(true) is non-decreasing in num_queries
\* (for every n1 <= n2, n1 = 0 included) and never exceeds
\* min(field_security, hash_fn_security).
C9_MonotoneInNumQueries ==
    ConjecturedCall
    => /\ ret.kind = "Ok"
       /\ \A n1 \in 0..Options.num_queries :
            LET fewer == security_level([context EXCEPT !.options.num_queries = n1],
                                        TRUE, overflow_checks).ret
            IN  fewer.kind = "Ok" /\ Le(fewer.value, ret.value)
       /\ MinInt(FieldSecurity, HashFnSecurity) >= 0
       /\ Le(ret.value, N(MinInt(FieldSecurity, HashFnSecurity)))

\* C10: in security_level(true) the inverse rate lde_domain_size() /
\* trace_length() equals the blowup factor for every proof: the division is
\* never by zero, and a blowup factor that does not divide the domain size
\* does not give a larger one_over_rho.
C10_InverseRateIsBlowup ==
    ConjecturedCall
    => /\ ret.reason # "attempt to divide by zero"
       /\ locals.line >= 125 => locals.one_over_rho = N(Options.blowup_factor)

\* ------------------------------------------------------------------------
\* Supporting properties: where the code and the estimate agree
\* ------------------------------------------------------------------------

\* With overflow checks on, a security level that is returned at all is the
\* exact min(field_security, hash_fn_security, query_security) - 1.
ReturnedWithChecksIsExact ==
    (ConjecturedCall /\ overflow_checks /\ ret.kind = "Ok")
    => LET len == Div(Pow2(Depth), N(Options.blowup_factor))
           expected == MinInt(MinInt(FieldSecurity, HashFnSecurity),
                              QuerySecurity(len)) - 1
       IN  expected >= 0 /\ ret.value = N(expected)

\* With overflow checks on, the returned levels are non-decreasing in
\* num_queries from 1 on.
ReturnedWithChecksIsMonotone ==
    (ConjecturedCall /\ overflow_checks /\ ret.kind = "Ok")
    => \A n1 \in 1..Options.num_queries :
          LET fewer == security_level([context EXCEPT !.options.num_queries = n1],
                                      TRUE, overflow_checks).ret
          IN  fewer.kind = "Ok" => Le(fewer.value, ret.value)

\* Every depth below the word size gives exactly 2^depth, in either build.
DomainSizeExactBelowWordSize ==
    (called = "lde_domain_size" /\ Depth < USIZE_BITS) => ret = Ok(Pow2(Depth))

====
